---- MODULE Spec2Model ----
(***************************************************************************)
(* application-manager (src/index.js): five operations that build an       *)
(* AppleScript text, hand it to the applescript bridge and deliver the     *)
(* outcome to a completion callback or through a returned promise.         *)
(*                                                                         *)
(* A call is modelled in two kinds of step: the synchronous body of the    *)
(* operation (argument checks, script construction, dispatch, return or    *)
(* throw), and one step per bridge completion, which runs the promise      *)
(* handlers / bridge callback the operation attached to that dispatch.     *)
(***************************************************************************)
EXTENDS Naturals, Sequences, FiniteSets

(* Number of calls made by the callers during one run. *)
MaxCalls == 1

VARIABLES
    pc,        \* per call: "idle", an "await..." position, "done" or "threw"
    args,      \* per call: the operation and the arguments it was called with
    thrown,    \* per call: the error raised synchronously by the call
    handle,    \* per call: the promise the call returned, if it returned one
    cbLog,     \* per call: the invocations of the caller's callback, in order
    scripts,   \* per call: the scripts handed to the bridge, in order
    answers,   \* per call: the bridge's completions, aligned with scripts
    env        \* per call: the locals its handlers close over

vars == <<pc, args, thrown, handle, cbLog, scripts, answers, env>>

Calls == 1..MaxCalls

(***************************************************************************)
(* JavaScript values.  tag is the value's kind; str its text (string       *)
(* contents, number or boolean literal, error message); items the members  *)
(* of an array of strings.  An options object also carries its two         *)
(* recognised properties.  "nested" is the one-element array wrapping an   *)
(* array of strings ([[...]]).                                             *)
(***************************************************************************)
Atom(tag, str, items) == [tag |-> tag, str |-> str, items |-> items]

Undefined == Atom("undefined", "", <<>>)
Null == Atom("null", "", <<>>)
Str(s) == Atom("string", s, <<>>)
Num(s) == Atom("number", s, <<>>)
Bool(b) == Atom("boolean", IF b THEN "true" ELSE "false", <<>>)
Arr(items) == Atom("array", "", items)
Nested(items) == Atom("nested", "", items)
Fn == Atom("function", "", <<>>)
Err(msg) == Atom("error", msg, <<>>)
Obj(all, background) ==
    [tag |-> "object", str |-> "", items |-> <<>>,
     all |-> all, background |-> background]

(* typeof v *)
TypeOf(v) ==
    CASE v.tag = "undefined" -> "undefined"
      [] v.tag = "string" -> "string"
      [] v.tag = "number" -> "number"
      [] v.tag = "boolean" -> "boolean"
      [] v.tag = "function" -> "function"
      [] OTHER -> "object"

(* v instanceof Array *)
InstanceOfArray(v) == v.tag \in {"array", "nested"}

(* ToBoolean(v): the test of `if (v)`, `!v`, `v || d`, `v ? a : b` *)
Truthy(v) ==
    CASE v.tag \in {"undefined", "null"} -> FALSE
      [] v.tag = "boolean" -> v.str = "true"
      [] v.tag = "string" -> v.str # ""
      [] v.tag = "number" -> v.str # "0"
      [] OTHER -> TRUE

(* !v *)
Not(v) == Bool(~Truthy(v))

(* a || b *)
OrElse(a, b) == IF Truthy(a) THEN a ELSE b

RECURSIVE Join(_)
(* Array.prototype.join(",") on an array of strings *)
Join(items) ==
    IF items = <<>> THEN ""
    ELSE IF Len(items) = 1 THEN items[1]
    ELSE items[1] \o "," \o Join(Tail(items))

(* String(v), as a template literal `${v}` computes it *)
ToString(v) ==
    CASE v.tag = "undefined" -> "undefined"
      [] v.tag = "null" -> "null"
      [] v.tag \in {"string", "number", "boolean"} -> v.str
      [] v.tag \in {"array", "nested"} -> Join(v.items)
      [] v.tag = "function" -> "() => {}"
      [] v.tag = "error" -> "Error: " \o v.str
      [] OTHER -> "[object Object]"

(* v[key] for key "all" / "background", on a value that is not null or     *)
(* undefined: only an options object has the property.                     *)
Get(v, key) == IF v.tag = "object" THEN v[key] ELSE Undefined

(* The first character of the texts the bridge reports.                    *)
FirstChar(s) == IF s = "true" THEN "t" ELSE IF s = "false" THEN "f" ELSE s

(* res[0] *)
Index0(v) ==
    CASE v.tag = "nested" -> Arr(v.items)
      [] v.tag = "array" -> IF v.items = <<>> THEN Undefined ELSE Str(v.items[1])
      [] v.tag = "string" -> IF v.str = "" THEN Undefined ELSE Str(FirstChar(v.str))
      [] OTHER -> Undefined

(***************************************************************************)
(* Promises.  state is "none" when the call returned no promise.           *)
(***************************************************************************)
NoHandle == [state |-> "none", value |-> Undefined]
Pending == [state |-> "pending", value |-> Undefined]
Resolved(v) == [state |-> "resolved", value |-> v]
Rejected(e) == [state |-> "rejected", value |-> e]

(* new Promise((reject, resolve) => { reject(err); }): the executor's      *)
(* first parameter is the promise's resolver, whatever it is named.        *)
NewPromiseFirstParam(err) == Resolved(err)

(***************************************************************************)
(* The scripts.                                                            *)
(***************************************************************************)
(* A script builder that always asks for the foreground applications.      *)
RunningScriptForeground(background) ==
    "tell application \"System Events\"\n"
    \o "                    set listOfProcesses to (name of every process where background only is "
    \o "false)\n"
    \o "                  end tell\n"
    \o "                  return [listOfProcesses]"

RunningScript(background) ==
    "tell application \"System Events\"\n"
    \o "                    set listOfProcesses to (name of every process where background only is "
    \o ToString(background) \o ")\n"
    \o "                  end tell\n"
    \o "                  return [listOfProcesses]"

IsOpenScript(application) ==
    "tell application \"System Events\" to (name of processes) contains \""
    \o ToString(application) \o "\""

RECURSIVE Quoted(_)
(* application.map((app, i) => ('"' + app + '"')) *)
Quoted(items) ==
    IF items = <<>> THEN <<>>
    ELSE <<"\"" \o items[1] \o "\"">> \o Quoted(Tail(items))

(* A list script that names only the first application of the sequence.    *)
QuitListScriptFirst(application) ==
    "set applicationList to {\"" \o application.items[1] \o "\"}\n"
    \o "                  repeat with appl in applicationList\n"
    \o "                    quit application appl\n"
    \o "                  end repeat"

QuitListScript(application) ==
    "set applicationList to {" \o Join(Quoted(application.items)) \o "}\n"
    \o "                  repeat with appl in applicationList\n"
    \o "                    quit application appl\n"
    \o "                  end repeat"

QuitScript(application) ==
    "tell application \"" \o ToString(application) \o "\" to quit"

MinimizeScript(application, all) ==
    "tell application \"" \o ToString(application) \o "\"\n"
    \o "                     set miniaturized of "
    \o (IF Truthy(all) THEN "every window" ELSE "window 1") \o " to true\n"
    \o "                  end tell"

HideScript(application) ==
    "tell application \"System Events\" to tell process \""
    \o ToString(application) \o "\" to set visible to false"

FocusScript(application) ==
    "tell application \"" \o ToString(application) \o "\" to activate"

(***************************************************************************)
(* Arguments the callers pass, and what the bridge can report.             *)
(***************************************************************************)
NoOptions == Obj(Undefined, Undefined)

ApplicationArgs ==
    {Str("Finder"), Num("42"), Arr(<<"Spotify", "Slack">>), Undefined}

(* What callers pass in the options position of runningApplications ...    *)
RunningOptionArgs ==
    {Undefined, NoOptions,
     Obj(Undefined, Bool(TRUE)), Obj(Undefined, Bool(FALSE)),
     Arr(<<>>), Str("opts"), Num("7"), Null, Fn}

(* ... and of minimize.                                                    *)
MinimizeOptionArgs ==
    {Undefined, NoOptions,
     Obj(Bool(TRUE), Undefined), Obj(Bool(FALSE), Undefined),
     Obj(Str("yes"), Undefined),
     Arr(<<>>), Str("opts"), Num("7"), Null, Fn}

CallbackArgs == {Undefined, Fn, Str("cb"), Null}

BridgeResults ==
    {Undefined, Str("true"), Str("false"),
     Nested(<<>>), Nested(<<"loginwindow", "Finder">>)}

BridgeErrors == {Err("execution error: -1728"), Err("execution error: -10006")}

(* What the bridge hands to callback(err, result) when osascript exits.    *)
BridgeOutcomes ==
    {[err |-> Undefined, result |-> r] : r \in BridgeResults}
    \cup {[err |-> e, result |-> Undefined] : e \in BridgeErrors}

(* The error a caller's callback raises when it throws.                    *)
CallbackError == Err("thrown by the callback")

(* One invocation of the caller's callback: cb(err, res).                  *)
Invocation(err, res) == [err |-> err, res |-> res]

(***************************************************************************)
(* The per-call record the steps compute: the locals the handlers close    *)
(* over (env) and everything the call has done so far.                     *)
(***************************************************************************)
NoEnv == [cb |-> Undefined, application |-> Undefined]

Fresh ==
    [pc |-> "idle", thrown |-> Undefined, handle |-> NoHandle, cbLog |-> <<>>,
     scripts |-> <<>>, env |-> NoEnv]

(* throw err *)
Throw(err) == [Fresh EXCEPT !.pc = "threw", !.thrown = err]

(* return <promise> *)
Return(promise) == [Fresh EXCEPT !.pc = "done", !.handle = promise]

(* return cb(err): the callback runs inside the call; if it throws, the    *)
(* call throws.                                                            *)
ReturnCallback(err, cbThrows) ==
    IF cbThrows
    THEN [Fresh EXCEPT !.pc = "threw", !.thrown = CallbackError,
                       !.cbLog = <<Invocation(err, Undefined)>>]
    ELSE [Fresh EXCEPT !.pc = "done", !.cbLog = <<Invocation(err, Undefined)>>]

(* The script goes to the bridge; the call returns `promise` (NoHandle:    *)
(* it returns undefined) and waits at `at` for the bridge.                 *)
Dispatch(at, script, promise, cb, application) ==
    [Fresh EXCEPT !.pc = at, !.handle = promise, !.scripts = <<script>>,
                  !.env = [cb |-> cb, application |-> application]]

(* What a promise handler did: the callback invocations it made, and the   *)
(* value it returned or the error it threw.                                *)
Returns(value, log) == [threw |-> FALSE, value |-> value, log |-> log]
Throws(error, log) == [threw |-> TRUE, value |-> error, log |-> log]

(* The promise p.then(f).catch(g) given what f did (first) and what g did  *)
(* if f threw or p was rejected (last = first when g did not run).         *)
ChainPromise(last) ==
    IF last.threw THEN Rejected(last.value) ELSE Resolved(last.value)

ChainLog(first, last) ==
    IF first.threw THEN first.log \o last.log ELSE first.log

(***************************************************************************)
(* The synchronous body of each operation.  cbThrows: whether the caller's *)
(* callback throws if this body invokes it.                                *)
(***************************************************************************)
(* A runningApplications that takes its first argument as the options      *)
(* whatever its type.                                                      *)
runningApplicationsNoShift(optionsArg, cbArg, cbThrows) ==
    LET options == IF optionsArg = Undefined THEN NoOptions ELSE optionsArg
        cb == cbArg
    IN  IF TypeOf(cb) # "function" /\ TypeOf(cb) # "undefined"
        THEN Throw(Err("Callback parameter is not a function, got "
                       \o TypeOf(options)))
        ELSE IF (TypeOf(options) # "object" /\ options # Undefined)
                \/ InstanceOfArray(options)
        THEN LET err == Err("Options parameter is not an object, got "
                            \o (IF InstanceOfArray(options) THEN "array"
                                ELSE TypeOf(options)))
             IN  IF ~Truthy(cb) THEN Return(NewPromiseFirstParam(err))
                 ELSE ReturnCallback(err, cbThrows)
        ELSE IF options = Null
        THEN Throw(Err("Cannot read property 'background' of null"))
        ELSE LET background == OrElse(Get(options, "background"), Bool(FALSE))
             IN  Dispatch("awaitRunning", RunningScript(background), Pending,
                          cb, Undefined)

runningApplications(optionsArg, cbArg, cbThrows) ==
    LET given == IF optionsArg = Undefined THEN NoOptions ELSE optionsArg
        omitted == TypeOf(given) = "function" /\ cbArg = Undefined
        cb == IF omitted THEN given ELSE cbArg
        options == IF omitted THEN NoOptions ELSE given
    IN  IF TypeOf(cb) # "function" /\ TypeOf(cb) # "undefined"
        THEN Throw(Err("Callback parameter is not a function, got "
                       \o TypeOf(options)))
        ELSE IF (TypeOf(options) # "object" /\ options # Undefined)
                \/ InstanceOfArray(options)
        THEN LET err == Err("Options parameter is not an object, got "
                            \o (IF InstanceOfArray(options) THEN "array"
                                ELSE TypeOf(options)))
             IN  IF ~Truthy(cb) THEN Return(NewPromiseFirstParam(err))
                 ELSE ReturnCallback(err, cbThrows)
        ELSE IF options = Null
        THEN Throw(Err("Cannot read property 'background' of null"))
        ELSE LET background == OrElse(Get(options, "background"), Bool(FALSE))
             IN  Dispatch("awaitRunning", RunningScript(background), Pending,
                          cb, Undefined)

isOpen(application, cb, cbThrows) ==
    IF TypeOf(cb) # "function" /\ cb # Undefined
    THEN Throw(Err("Callback parameter is not a function, got "
                   \o TypeOf(application)))
    ELSE IF TypeOf(application) # "string"
    THEN LET err == Err("Application parameter is not a string, got "
                        \o TypeOf(application))
         IN  IF ~Truthy(cb) THEN Return(NewPromiseFirstParam(err))
             ELSE ReturnCallback(err, cbThrows)
    ELSE Dispatch("awaitIsOpen", IsOpenScript(application), Pending,
                  cb, application)

quit(application, cb, cbThrows) ==
    IF TypeOf(cb) # "function" /\ TypeOf(cb) # "undefined"
    THEN Throw(Err("Callback parameter is not a function, got "
                   \o TypeOf(application)))
    \* `!application instanceof Array` is `(!application) instanceof Array`
    ELSE IF TypeOf(application) # "string" /\ InstanceOfArray(Not(application))
    THEN LET err == Err("Application parameter is not a string, got "
                        \o TypeOf(application))
         IN  IF ~Truthy(cb) THEN Return(NewPromiseFirstParam(err))
             ELSE ReturnCallback(err, cbThrows)
    ELSE IF InstanceOfArray(application)
    THEN Dispatch("awaitQuitList", QuitListScript(application), NoHandle,
                  cb, application)
    ELSE Dispatch("awaitQuit", QuitScript(application), NoHandle,
                  cb, application)

(* minimize, from the application check on (cb and options as the first   *)
(* lines of the function left them).                                       *)
minimizeChecked(application, options, cb, cbThrows) ==
    IF TypeOf(application) # "string"
    THEN LET err == Err("Application parameter is not a string, got "
                        \o TypeOf(application))
         IN  IF ~Truthy(cb) THEN Return(NewPromiseFirstParam(err))
             ELSE ReturnCallback(err, cbThrows)
    ELSE IF options = Null
    THEN Throw(Err("Cannot read property 'all' of null"))
    ELSE IF Get(options, "all") # Undefined
            /\ TypeOf(Get(options, "all")) # "boolean"
    THEN LET err == Err("Option 'all' parameter is not a boolean, got "
                        \o TypeOf(Get(options, "all")))
         IN  IF ~Truthy(cb) THEN Return(NewPromiseFirstParam(err))
             ELSE ReturnCallback(err, cbThrows)
    ELSE LET all == OrElse(Get(options, "all"), Bool(TRUE))
         IN  Dispatch("awaitMinimize", MinimizeScript(application, all),
                      Pending, cb, application)

(* A minimize that checks the application before the callback.             *)
minimizeApplicationFirst(application, optionsArg, cbArg, cbThrows) ==
    LET given == IF optionsArg = Undefined THEN NoOptions ELSE optionsArg
        omitted == TypeOf(given) = "function" /\ cbArg = Undefined
        cb == IF omitted THEN given ELSE cbArg
        options == IF omitted THEN NoOptions ELSE given
    IN  IF TypeOf(application) # "string"
        THEN minimizeChecked(application, options, cb, cbThrows)
        ELSE IF TypeOf(cb) # "function" /\ cb # Undefined
        THEN Throw(Err("Callback parameter is not a function, got "
                       \o TypeOf(cb)))
        ELSE minimizeChecked(application, options, cb, cbThrows)

minimize(application, optionsArg, cbArg, cbThrows) ==
    LET given == IF optionsArg = Undefined THEN NoOptions ELSE optionsArg
        omitted == TypeOf(given) = "function" /\ cbArg = Undefined
        cb == IF omitted THEN given ELSE cbArg
        options == IF omitted THEN NoOptions ELSE given
    IN  IF TypeOf(cb) # "function" /\ cb # Undefined
        THEN Throw(Err("Callback parameter is not a function, got "
                       \o TypeOf(cb)))
        ELSE minimizeChecked(application, options, cb, cbThrows)

focus(application, cb, cbThrows) ==
    \* new Error(message, typeof cb): the second argument is not the message
    IF TypeOf(cb) # "function" /\ cb # Undefined
    THEN Throw(Err("Callback parameter is not a function, got "))
    ELSE IF TypeOf(application) # "string"
    THEN LET err == Err("Application parameter is not a string, got ")
         IN  IF ~Truthy(cb) THEN Return(NewPromiseFirstParam(err))
             ELSE ReturnCallback(err, cbThrows)
    ELSE Dispatch("awaitFocus", FocusScript(application), NoHandle,
                  cb, application)

(***************************************************************************)
(* The handlers attached to each dispatch.  A .then handler gets the       *)
(* bridge's result, a .catch handler the rejection or the error the .then  *)
(* handler threw.  cbThrows: whether the caller's callback throws when     *)
(* the handler invokes it.                                                 *)
(***************************************************************************)
(* A runningApplications that delivers the bridge's wrapper as it came.    *)
runningApplicationsThenNested(res, cb, cbThrows) ==
    IF ~Truthy(res)
    THEN Throws(Err("Could not get running applications."), <<>>)
    ELSE IF Truthy(cb)
         THEN IF cbThrows
              THEN Throws(CallbackError, <<Invocation(Null, res)>>)
              ELSE Returns(res, <<Invocation(Null, res)>>)
         ELSE Returns(res, <<>>)

runningApplicationsThen(res, cb, cbThrows) ==
    IF ~Truthy(res)
    THEN Throws(Err("Could not get running applications."), <<>>)
    ELSE LET flat == Index0(res)
         IN  IF Truthy(cb)
             THEN IF cbThrows
                  THEN Throws(CallbackError, <<Invocation(Null, flat)>>)
                  ELSE Returns(flat, <<Invocation(Null, flat)>>)
             ELSE Returns(flat, <<>>)

runningApplicationsCatch(err, cb, cbThrows) ==
    IF Truthy(cb)
    THEN IF cbThrows
         THEN Throws(CallbackError, <<Invocation(err, Undefined)>>)
         ELSE Returns(err, <<Invocation(err, Undefined)>>)
    ELSE Returns(err, <<>>)

(* An isOpen that tests the bridge's text for truthiness.                  *)
isOpenThenTruthy(res, cb, cbThrows) ==
    LET open == Bool(Truthy(res))
    IN  IF Truthy(cb)
        THEN IF cbThrows
             THEN Throws(CallbackError, <<Invocation(Null, open)>>)
             ELSE Returns(open, <<Invocation(Null, open)>>)
        ELSE Returns(open, <<>>)

isOpenThen(res, cb, cbThrows) ==
    LET open == Bool(res = Str("true"))
    IN  IF Truthy(cb)
        THEN IF cbThrows
             THEN Throws(CallbackError, <<Invocation(Null, open)>>)
             ELSE Returns(open, <<Invocation(Null, open)>>)
        ELSE Returns(open, <<>>)

(* cb(res): no `res` is in scope in the .catch handler, so evaluating the  *)
(* argument raises a ReferenceError before cb is invoked.                  *)
isOpenCatch(err, cb, cbThrows) ==
    IF Truthy(cb)
    THEN Throws(Err("ReferenceError: res is not defined"), <<>>)
    ELSE Returns(err, <<>>)

quitThen(res, cb, cbThrows) ==
    IF Truthy(cb)
    THEN IF cbThrows
         THEN Throws(CallbackError, <<Invocation(Null, Undefined)>>)
         ELSE Returns(Undefined, <<Invocation(Null, Undefined)>>)
    ELSE Returns(Undefined, <<>>)

quitCatch(err, cb, cbThrows) ==
    IF Truthy(cb)
    THEN IF cbThrows
         THEN Throws(CallbackError, <<Invocation(err, Undefined)>>)
         ELSE Returns(Undefined, <<Invocation(err, Undefined)>>)
    ELSE Returns(err, <<>>)

minimizeThen(res, cb, cbThrows) ==
    IF Truthy(cb)
    THEN IF cbThrows
         THEN Throws(CallbackError, <<Invocation(Undefined, Undefined)>>)
         ELSE Returns(Undefined, <<Invocation(Undefined, Undefined)>>)
    ELSE Returns(Undefined, <<>>)

focusThen(res, cb, cbThrows) ==
    IF Truthy(cb)
    THEN IF cbThrows
         THEN Throws(CallbackError, <<Invocation(Null, Undefined)>>)
         ELSE Returns(Undefined, <<Invocation(Null, Undefined)>>)
    ELSE Returns(Undefined, <<>>)

focusCatch(err, cb, cbThrows) ==
    IF Truthy(cb)
    THEN IF cbThrows
         THEN Throws(CallbackError, <<Invocation(err, Undefined)>>)
         ELSE Returns(Undefined, <<Invocation(err, Undefined)>>)
    ELSE Returns(err, <<>>)

(* execStringAsync(script): rejected with the bridge's error, else         *)
(* fulfilled with its result; a rejection skips the .then handler.         *)
Rejection(o) == Throws(o.err, <<>>)

(***************************************************************************)
(* A bridge completion o for a waiting call s: the handlers run.           *)
(* t1, t2: whether the callback throws at its first / second invocation    *)
(* of the step.                                                            *)
(***************************************************************************)
runningApplicationsSettle(s, o, t1, t2) ==
    LET first == IF Truthy(o.err) THEN Rejection(o)
                 ELSE runningApplicationsThen(o.result, s.env.cb, t1)
        last == IF first.threw
                THEN runningApplicationsCatch(first.value, s.env.cb, t2)
                ELSE first
    IN  [s EXCEPT !.pc = "done",
                  !.cbLog = @ \o ChainLog(first, last),
                  !.handle = ChainPromise(last)]

isOpenSettle(s, o, t1, t2) ==
    LET first == IF Truthy(o.err) THEN Rejection(o)
                 ELSE isOpenThen(o.result, s.env.cb, t1)
        last == IF first.threw THEN isOpenCatch(first.value, s.env.cb, t2)
                ELSE first
    IN  [s EXCEPT !.pc = "done",
                  !.cbLog = @ \o ChainLog(first, last),
                  !.handle = ChainPromise(last)]

(* applescript.execString(script, cb): the bridge itself invokes cb, if    *)
(* there is one.  What cb throws there reaches no handler of the call.     *)
quitListSettle(s, o) ==
    IF s.env.cb = Undefined THEN [s EXCEPT !.pc = "done"]
    ELSE [s EXCEPT !.pc = "done",
                   !.cbLog = @ \o <<Invocation(o.err, o.result)>>]

(* The chained promise is not returned: what the .catch handler returns   *)
(* or throws reaches nobody.                                               *)
quitSettle(s, o, t1, t2) ==
    LET first == IF Truthy(o.err) THEN Rejection(o)
                 ELSE quitThen(o.result, s.env.cb, t1)
        last == IF first.threw THEN quitCatch(first.value, s.env.cb, t2)
                ELSE first
    IN  [s EXCEPT !.pc = "done",
                  !.cbLog = @ \o ChainLog(first, last)]

(* A minimize that surfaces the failure of the primary dispatch, as the    *)
(* other operations do, instead of dispatching the hide script.            *)
minimizeSettleNoFallback(s, o, t1) ==
    LET first == IF Truthy(o.err) THEN Rejection(o)
                 ELSE minimizeThen(o.result, s.env.cb, t1)
    IN  IF ~first.threw
        THEN [s EXCEPT !.pc = "done",
                       !.cbLog = @ \o first.log,
                       !.handle = Resolved(first.value)]
        ELSE IF Truthy(s.env.cb)
        THEN [s EXCEPT !.pc = "done",
                       !.cbLog = @ \o first.log
                                   \o <<Invocation(first.value, Undefined)>>,
                       !.handle = Resolved(Undefined)]
        ELSE [s EXCEPT !.pc = "done", !.handle = Rejected(first.value)]

(* The .catch handler of minimize dispatches the hide script: through the  *)
(* bridge's callback form when there is a callback (the chained promise    *)
(* then resolves with execString's undefined), else it returns the         *)
(* promise of execStringAsync, which the chained promise follows.          *)
minimizeSettle(s, o, t1) ==
    LET first == IF Truthy(o.err) THEN Rejection(o)
                 ELSE minimizeThen(o.result, s.env.cb, t1)
        hide == HideScript(s.env.application)
    IN  IF ~first.threw
        THEN [s EXCEPT !.pc = "done",
                       !.cbLog = @ \o first.log,
                       !.handle = Resolved(first.value)]
        ELSE IF Truthy(s.env.cb)
        THEN [s EXCEPT !.pc = "awaitHide",
                       !.cbLog = @ \o first.log,
                       !.scripts = @ \o <<hide>>,
                       !.handle = Resolved(Undefined)]
        ELSE [s EXCEPT !.pc = "awaitHideAsync",
                       !.cbLog = @ \o first.log,
                       !.scripts = @ \o <<hide>>]

(* err => cb(err), invoked by the bridge *)
hideSettle(s, o) ==
    [s EXCEPT !.pc = "done",
              !.cbLog = @ \o <<Invocation(o.err, Undefined)>>]

hideAsyncSettle(s, o) ==
    [s EXCEPT !.pc = "done",
              !.handle = IF Truthy(o.err) THEN Rejected(o.err)
                         ELSE Resolved(o.result)]

focusSettle(s, o, t1, t2) ==
    LET first == IF Truthy(o.err) THEN Rejection(o)
                 ELSE focusThen(o.result, s.env.cb, t1)
        last == IF first.threw THEN focusCatch(first.value, s.env.cb, t2)
                ELSE first
    IN  [s EXCEPT !.pc = "done",
                  !.cbLog = @ \o ChainLog(first, last)]

(***************************************************************************)
(* The state machine.                                                      *)
(***************************************************************************)
NoArgs ==
    [op |-> "none", application |-> Undefined, options |-> Undefined,
     cb |-> Undefined]

Arguments(op, application, options, cb) ==
    [op |-> op, application |-> application, options |-> options, cb |-> cb]

Current(c) ==
    [pc |-> pc[c], thrown |-> thrown[c], handle |-> handle[c],
     cbLog |-> cbLog[c], scripts |-> scripts[c], env |-> env[c]]

(* An update through storage shared by all calls: the waiting handler's    *)
(* callback and application are kept in one module-level slot.             *)
UpdateShared(c, s) ==
    /\ pc' = [pc EXCEPT ![c] = s.pc]
    /\ thrown' = [thrown EXCEPT ![c] = s.thrown]
    /\ handle' = [handle EXCEPT ![c] = s.handle]
    /\ cbLog' = [cbLog EXCEPT ![c] = s.cbLog]
    /\ scripts' = [scripts EXCEPT ![c] = s.scripts]
    /\ env' = [d \in DOMAIN env |-> s.env]

Update(c, s) ==
    /\ pc' = [pc EXCEPT ![c] = s.pc]
    /\ thrown' = [thrown EXCEPT ![c] = s.thrown]
    /\ handle' = [handle EXCEPT ![c] = s.handle]
    /\ cbLog' = [cbLog EXCEPT ![c] = s.cbLog]
    /\ scripts' = [scripts EXCEPT ![c] = s.scripts]
    /\ env' = [env EXCEPT ![c] = s.env]

Init ==
    /\ pc = [c \in Calls |-> Fresh.pc]
    /\ args = [c \in Calls |-> NoArgs]
    /\ thrown = [c \in Calls |-> Fresh.thrown]
    /\ handle = [c \in Calls |-> Fresh.handle]
    /\ cbLog = [c \in Calls |-> Fresh.cbLog]
    /\ scripts = [c \in Calls |-> Fresh.scripts]
    /\ answers = [c \in Calls |-> <<>>]
    /\ env = [c \in Calls |-> Fresh.env]

(* A caller calls an operation. *)
CallRunningApplications(c) ==
    /\ pc[c] = "idle"
    /\ \E options \in RunningOptionArgs, cb \in CallbackArgs, t \in BOOLEAN :
         /\ args' = [args EXCEPT
                       ![c] = Arguments("runningApplications", Undefined,
                                        options, cb)]
         /\ Update(c, runningApplications(options, cb, t))
    /\ UNCHANGED answers

CallIsOpen(c) ==
    /\ pc[c] = "idle"
    /\ \E application \in ApplicationArgs, cb \in CallbackArgs, t \in BOOLEAN :
         /\ args' = [args EXCEPT
                       ![c] = Arguments("isOpen", application, Undefined, cb)]
         /\ Update(c, isOpen(application, cb, t))
    /\ UNCHANGED answers

CallQuit(c) ==
    /\ pc[c] = "idle"
    /\ \E application \in ApplicationArgs, cb \in CallbackArgs, t \in BOOLEAN :
         /\ args' = [args EXCEPT
                       ![c] = Arguments("quit", application, Undefined, cb)]
         /\ Update(c, quit(application, cb, t))
    /\ UNCHANGED answers

CallMinimize(c) ==
    /\ pc[c] = "idle"
    /\ \E application \in ApplicationArgs, options \in MinimizeOptionArgs,
          cb \in CallbackArgs, t \in BOOLEAN :
         /\ args' = [args EXCEPT
                       ![c] = Arguments("minimize", application, options, cb)]
         /\ Update(c, minimize(application, options, cb, t))
    /\ UNCHANGED answers

CallFocus(c) ==
    /\ pc[c] = "idle"
    /\ \E application \in ApplicationArgs, cb \in CallbackArgs, t \in BOOLEAN :
         /\ args' = [args EXCEPT
                       ![c] = Arguments("focus", application, Undefined, cb)]
         /\ Update(c, focus(application, cb, t))
    /\ UNCHANGED answers

(* The bridge completes the dispatch a call is waiting for. *)
Answer(c, o) ==
    /\ answers' = [answers EXCEPT ![c] = @ \o <<o>>]
    /\ UNCHANGED args

SettleRunningApplications(c) ==
    /\ pc[c] = "awaitRunning"
    /\ \E o \in BridgeOutcomes, t1 \in BOOLEAN, t2 \in BOOLEAN :
         /\ Answer(c, o)
         /\ Update(c, runningApplicationsSettle(Current(c), o, t1, t2))

SettleIsOpen(c) ==
    /\ pc[c] = "awaitIsOpen"
    /\ \E o \in BridgeOutcomes, t1 \in BOOLEAN, t2 \in BOOLEAN :
         /\ Answer(c, o)
         /\ Update(c, isOpenSettle(Current(c), o, t1, t2))

SettleQuitList(c) ==
    /\ pc[c] = "awaitQuitList"
    /\ \E o \in BridgeOutcomes :
         /\ Answer(c, o)
         /\ Update(c, quitListSettle(Current(c), o))

SettleQuit(c) ==
    /\ pc[c] = "awaitQuit"
    /\ \E o \in BridgeOutcomes, t1 \in BOOLEAN, t2 \in BOOLEAN :
         /\ Answer(c, o)
         /\ Update(c, quitSettle(Current(c), o, t1, t2))

SettleMinimize(c) ==
    /\ pc[c] = "awaitMinimize"
    /\ \E o \in BridgeOutcomes, t1 \in BOOLEAN :
         /\ Answer(c, o)
         /\ Update(c, minimizeSettle(Current(c), o, t1))

SettleHide(c) ==
    /\ pc[c] = "awaitHide"
    /\ \E o \in BridgeOutcomes :
         /\ Answer(c, o)
         /\ Update(c, hideSettle(Current(c), o))

SettleHideAsync(c) ==
    /\ pc[c] = "awaitHideAsync"
    /\ \E o \in BridgeOutcomes :
         /\ Answer(c, o)
         /\ Update(c, hideAsyncSettle(Current(c), o))

SettleFocus(c) ==
    /\ pc[c] = "awaitFocus"
    /\ \E o \in BridgeOutcomes, t1 \in BOOLEAN, t2 \in BOOLEAN :
         /\ Answer(c, o)
         /\ Update(c, focusSettle(Current(c), o, t1, t2))

Next ==
    \E c \in Calls :
        \/ CallQuit(c)
        \/ CallMinimize(c)
        \/ CallRunningApplications(c)
        \/ CallIsOpen(c)
        \/ CallFocus(c)
        \/ SettleRunningApplications(c)
        \/ SettleIsOpen(c)
        \/ SettleQuitList(c)
        \/ SettleQuit(c)
        \/ SettleMinimize(c)
        \/ SettleHide(c)
        \/ SettleHideAsync(c)
        \/ SettleFocus(c)

Spec == Init /\ [][Next]_vars

(***************************************************************************)
(* Vocabulary of the properties: the call as its caller sees it.           *)
(***************************************************************************)
Called(c) == pc[c] # "idle"

(* A callable in the options position with nothing after it is the         *)
(* completion callback (runningApplications and minimize).                 *)
OptionsOmitted(c) ==
    /\ args[c].op \in {"runningApplications", "minimize"}
    /\ args[c].options.tag = "function"
    /\ args[c].cb = Undefined

CallbackOf(c) == IF OptionsOmitted(c) THEN args[c].options ELSE args[c].cb

OptionsOf(c) == IF OptionsOmitted(c) THEN Undefined ELSE args[c].options

HasCallback(c) == CallbackOf(c).tag = "function"

NoCallback(c) == CallbackOf(c) = Undefined

BooleanOrAbsent(v) == v \in {Undefined, Bool(TRUE), Bool(FALSE)}

ValidOptions(c) ==
    \/ OptionsOf(c) = Undefined
    \/ /\ OptionsOf(c).tag = "object"
       /\ BooleanOrAbsent(OptionsOf(c).all)
       /\ BooleanOrAbsent(OptionsOf(c).background)

ValidApplication(c) ==
    CASE args[c].op = "runningApplications" -> TRUE
      [] args[c].op = "quit" -> args[c].application.tag \in {"string", "array"}
      [] OTHER -> args[c].application.tag = "string"

ValidCall(c) ==
    /\ Called(c)
    /\ HasCallback(c) \/ NoCallback(c)
    /\ ValidOptions(c)
    /\ ValidApplication(c)

Finished(c) == pc[c] = "done"

LastAnswer(c) == answers[c][Len(answers[c])]

TypeNames ==
    {"undefined", "object", "string", "number", "boolean", "function",
     "array", ""}

MessageIn(e, prefix) ==
    e.tag = "error" /\ \E t \in TypeNames : e.str = prefix \o t

InvalidCallbackType(e) ==
    MessageIn(e, "Callback parameter is not a function, got ")

InvalidOptionsType(e) ==
    MessageIn(e, "Options parameter is not an object, got ")

InvalidApplicationType(e) ==
    MessageIn(e, "Application parameter is not a string, got ")

InvalidOptionValueType(e) ==
    MessageIn(e, "Option 'all' parameter is not a boolean, got ")

(* The call of c ended in failure with error e, through the style in       *)
(* effect: the callback invoked once with e, or the returned promise       *)
(* rejected with e.                                                        *)
FailedWith(c, e) ==
    IF HasCallback(c) THEN cbLog[c] = <<Invocation(e, Undefined)>>
    ELSE handle[c] = Rejected(e)

(***************************************************************************)
(* C1: a call with valid arguments and a completion callback invokes the   *)
(* callback at most once, whatever the bridge reports.                     *)
(***************************************************************************)
C1_CallbackAtMostOnce ==
    \A c \in Calls :
        ValidCall(c) /\ HasCallback(c) => Len(cbLog[c]) <= 1

(***************************************************************************)
(* C2: once the bridge has answered every dispatch of a call with valid    *)
(* arguments and a callback, the callback has been invoked; if the last    *)
(* answer was a failure, it has been invoked with that error.              *)
(***************************************************************************)
C2_CallbackInvokedWhenBridgeAnswered ==
    \A c \in Calls :
        ValidCall(c) /\ HasCallback(c) /\ Finished(c) =>
            /\ cbLog[c] # <<>>
            /\ Truthy(LastAnswer(c).err) =>
                   \E i \in 1..Len(cbLog[c]) : cbLog[c][i].err = LastAnswer(c).err

(***************************************************************************)
(* C3: a call with valid arguments and no callback returns a promise at    *)
(* call time, and the promise is resolved once the bridge has succeeded.   *)
(***************************************************************************)
C3_PromiseReturnedAndResolved ==
    \A c \in Calls :
        ValidCall(c) /\ NoCallback(c) =>
            /\ handle[c].state # "none"
            /\ Finished(c) /\ ~Truthy(LastAnswer(c).err) =>
                   handle[c].state = "resolved"

(***************************************************************************)
(* C4: for runningApplications, isOpen, quit and focus with valid          *)
(* arguments and no callback, a bridge failure rejects the returned        *)
(* promise with the bridge's error.                                        *)
(***************************************************************************)
C4_BridgeFailureRejects ==
    \A c \in Calls :
        /\ args[c].op \in {"runningApplications", "isOpen", "quit", "focus"}
        /\ ValidCall(c) /\ NoCallback(c)
        /\ Finished(c) /\ Truthy(LastAnswer(c).err)
        => handle[c] = Rejected(LastAnswer(c).err)

(***************************************************************************)
(* C5: a call with no callback that ends in the argument checks (nothing   *)
(* dispatched, nothing thrown) returns a promise that is rejected with     *)
(* the validation error.                                                   *)
(***************************************************************************)
ValidationError(e) ==
    InvalidOptionsType(e) \/ InvalidApplicationType(e)
    \/ InvalidOptionValueType(e)

C5_ValidationFailureRejects ==
    \A c \in Calls :
        NoCallback(c) /\ Finished(c) /\ scripts[c] = <<>> =>
            /\ handle[c].state = "rejected"
            /\ ValidationError(handle[c].value)

(***************************************************************************)
(* C6: a value in the callback position that is neither callable nor       *)
(* absent makes the call throw InvalidCallbackType at call time, whatever  *)
(* the other arguments are: nothing is dispatched, no promise is           *)
(* returned, the callback position is never invoked.                       *)
(***************************************************************************)
BadCallback(c) == args[c].cb.tag \notin {"function", "undefined"}

C6_BadCallbackThrows ==
    \A c \in Calls :
        Called(c) /\ BadCallback(c) =>
            /\ pc[c] = "threw"
            /\ InvalidCallbackType(thrown[c])
            /\ scripts[c] = <<>>
            /\ answers[c] = <<>>
            /\ handle[c] = NoHandle
            /\ cbLog[c] = <<>>

(* minimize threw for its callback although its application is no string   *)
(* and its options are not an object either.                               *)
C6_Witness ==
    \E c \in Calls :
        /\ args[c].op = "minimize"
        /\ BadCallback(c)
        /\ args[c].application.tag # "string"
        /\ args[c].options.tag = "array"
        /\ pc[c] = "threw"

(***************************************************************************)
(* C7: an application argument of the wrong type (not a string; for quit   *)
(* neither a string nor a sequence) ends the call with                     *)
(* InvalidApplicationType through the style in effect, and nothing is      *)
(* dispatched.                                                             *)
(***************************************************************************)
C7_InvalidApplicationRejected ==
    \A c \in Calls :
        /\ args[c].op \in {"isOpen", "quit", "minimize", "focus"}
        /\ Called(c)
        /\ HasCallback(c) \/ NoCallback(c)
        /\ ~ValidApplication(c)
        => /\ scripts[c] = <<>>
           /\ \E t \in TypeNames :
                  FailedWith(c, Err("Application parameter is not a string, got "
                                    \o t))

(***************************************************************************)
(* C8: runningApplications and minimize called with an array, a string or  *)
(* a number in the options position end with InvalidOptionsType and        *)
(* dispatch nothing.                                                       *)
(***************************************************************************)
C8_InvalidOptionsRejected ==
    \A c \in Calls :
        /\ args[c].op \in {"runningApplications", "minimize"}
        /\ Called(c)
        /\ HasCallback(c) \/ NoCallback(c)
        /\ ValidApplication(c)
        /\ args[c].options.tag \in {"array", "string", "number"}
        => /\ scripts[c] = <<>>
           /\ \E t \in TypeNames :
                  FailedWith(c, Err("Options parameter is not an object, got "
                                    \o t))

(***************************************************************************)
(* C9: minimize with a string application and an options object whose      *)
(* `all` is present but not a boolean ends with InvalidOptionValueType     *)
(* through the style in effect and dispatches nothing.                     *)
(***************************************************************************)
C9_InvalidOptionValueRejected ==
    \A c \in Calls :
        /\ args[c].op = "minimize"
        /\ Called(c)
        /\ HasCallback(c) \/ NoCallback(c)
        /\ ValidApplication(c)
        /\ args[c].options.tag = "object"
        /\ ~BooleanOrAbsent(args[c].options.all)
        => /\ scripts[c] = <<>>
           /\ \E t \in TypeNames :
                  FailedWith(c, Err("Option 'all' parameter is not a boolean, got "
                                    \o t))

(***************************************************************************)
(* C10: when the primary dispatch of a valid minimize call has failed,     *)
(* exactly one more script has been dispatched, it hides the process of    *)
(* the application of the request, nothing is delivered before the bridge  *)
(* answers it, and the call ends as that answer says: success if it        *)
(* succeeded, failure with its error if it failed.                         *)
(***************************************************************************)
PrimaryFailed(c) ==
    /\ args[c].op = "minimize"
    /\ ValidCall(c)
    /\ answers[c] # <<>>
    /\ Truthy(answers[c][1].err)

C10_FallbackDecidesOutcome ==
    \A c \in Calls :
        PrimaryFailed(c) =>
            /\ Len(scripts[c]) = 2
            /\ scripts[c][2] =
                   "tell application \"System Events\" to tell process \""
                   \o args[c].application.str \o "\" to set visible to false"
            /\ IF Len(answers[c]) = 1
               THEN /\ pc[c] \in {"awaitHide", "awaitHideAsync"}
                    /\ cbLog[c] = <<>>
                    /\ NoCallback(c) => handle[c] = Pending
               ELSE /\ Finished(c)
                    /\ Len(answers[c]) = 2
                    /\ IF Truthy(answers[c][2].err)
                       THEN FailedWith(c, answers[c][2].err)
                       ELSE IF HasCallback(c)
                       THEN cbLog[c] = <<Invocation(Undefined, Undefined)>>
                       ELSE handle[c].state = "resolved"

(* Both dispatches failed, with different errors, and the call is over.    *)
C10_Witness ==
    \E c \in Calls :
        /\ PrimaryFailed(c)
        /\ Finished(c)
        /\ Len(answers[c]) = 2
        /\ Truthy(answers[c][2].err)
        /\ answers[c][2].err # answers[c][1].err

(***************************************************************************)
(* C11: the primary script of a valid minimize call sets "miniaturized"    *)
(* on every window when option `all` is true or omitted, and on window 1   *)
(* only when `all` is false.                                               *)
(***************************************************************************)
AllOf(c) ==
    IF OptionsOf(c) = Undefined THEN Undefined ELSE OptionsOf(c).all

C11_WindowSelectorFollowsAll ==
    \A c \in Calls :
        args[c].op = "minimize" /\ ValidCall(c) =>
            /\ scripts[c] # <<>>
            /\ scripts[c][1] =
                   "tell application \"" \o args[c].application.str \o "\"\n"
                   \o "                     set miniaturized of "
                   \o (IF AllOf(c) = Bool(FALSE) THEN "window 1"
                       ELSE "every window")
                   \o " to true\n"
                   \o "                  end tell"

(***************************************************************************)
(* C12: a successful quit, minimize or focus call delivers no value,       *)
(* whatever payload the bridge returned: the callback receives no result   *)
(* and the returned promise is not resolved with anything but undefined.   *)
(***************************************************************************)
C12_UnitOperationsDeliverNoValue ==
    \A c \in Calls :
        /\ args[c].op \in {"quit", "minimize", "focus"}
        /\ ValidCall(c)
        /\ Finished(c)
        /\ ~Truthy(LastAnswer(c).err)
        => /\ \A i \in 1..Len(cbLog[c]) : cbLog[c][i].res = Undefined
           /\ NoCallback(c) /\ handle[c].state = "resolved" =>
                  handle[c].value = Undefined

(***************************************************************************)
(* C13: isOpen with a string application and a successful bridge call      *)
(* delivers a boolean: true exactly when the bridge returned the string    *)
(* "true", false for every other value; nothing else is delivered as the   *)
(* result.                                                                 *)
(***************************************************************************)
IsOpenSucceeded(c) ==
    /\ args[c].op = "isOpen"
    /\ ValidCall(c)
    /\ Finished(c)
    /\ ~Truthy(LastAnswer(c).err)

C13_IsOpenDeliversBoolean ==
    \A c \in Calls :
        IsOpenSucceeded(c) =>
            LET expected == IF LastAnswer(c).result.tag = "string"
                               /\ LastAnswer(c).result.str = "true"
                            THEN Bool(TRUE) ELSE Bool(FALSE)
            IN  IF HasCallback(c)
                THEN cbLog[c] = <<Invocation(Null, expected)>>
                ELSE handle[c] = Resolved(expected)

(* The bridge answered with the text "false" and false was delivered to    *)
(* the callback.                                                           *)
C13_Witness ==
    \E c \in Calls :
        /\ IsOpenSucceeded(c)
        /\ HasCallback(c)
        /\ LastAnswer(c).result = Str("false")
        /\ cbLog[c] = <<Invocation(Null, Bool(FALSE))>>

(***************************************************************************)
(* C14: when the bridge answers runningApplications without error and      *)
(* with a one-element wrapper, the inner sequence is delivered unwrapped   *)
(* by one level, its elements and their order unchanged, to the callback   *)
(* or as the value of the returned promise.                                *)
(***************************************************************************)
WrapperReturned(c) ==
    /\ args[c].op = "runningApplications"
    /\ ValidCall(c)
    /\ Finished(c)
    /\ ~Truthy(LastAnswer(c).err)
    /\ LastAnswer(c).result.tag = "nested"

C14_RunningApplicationsUnwrapsOnce ==
    \A c \in Calls :
        WrapperReturned(c) =>
            LET inner == Arr(LastAnswer(c).result.items)
            IN  IF HasCallback(c)
                THEN /\ cbLog[c] # <<>>
                     /\ cbLog[c][1] = Invocation(Null, inner)
                ELSE handle[c] = Resolved(inner)

(* The bridge reported loginwindow before Finder and the promise was       *)
(* resolved with the two names in that order.                              *)
C14_Witness ==
    \E c \in Calls :
        /\ WrapperReturned(c)
        /\ NoCallback(c)
        /\ LastAnswer(c).result.items = <<"loginwindow", "Finder">>
        /\ handle[c] = Resolved(Arr(<<"loginwindow", "Finder">>))

(***************************************************************************)
(* C15: the script runningApplications dispatches asks for the processes   *)
(* whose "background only" equals the background option: false when no     *)
(* options are given, when the options object is empty or when only a      *)
(* callback is given; true and false for {background: true} and            *)
(* {background: false}, which therefore give two different scripts.        *)
(***************************************************************************)
BackgroundOf(c) ==
    IF OptionsOf(c) = Undefined THEN Undefined ELSE OptionsOf(c).background

C15_ScriptCarriesBackground ==
    \A c \in Calls :
        args[c].op = "runningApplications" /\ ValidCall(c) =>
            /\ scripts[c] # <<>>
            /\ scripts[c][1] =
                   "tell application \"System Events\"\n"
                   \o "                    set listOfProcesses to (name of every process where background only is "
                   \o (IF BackgroundOf(c) = Bool(TRUE) THEN "true" ELSE "false")
                   \o ")\n"
                   \o "                  end tell\n"
                   \o "                  return [listOfProcesses]"

(* runningApplications({background: true}) has dispatched its script.      *)
C15_Witness ==
    \E c \in Calls :
        /\ args[c].op = "runningApplications"
        /\ ValidCall(c)
        /\ BackgroundOf(c) = Bool(TRUE)
        /\ Len(scripts[c]) = 1

(***************************************************************************)
(* C16: when the bridge answers runningApplications without error and      *)
(* without a value, the call ends in failure: the callback is invoked      *)
(* with an error and no result, or the returned promise is rejected; no    *)
(* successful result is delivered.                                         *)
(***************************************************************************)
EmptyBridgeResult(c) ==
    /\ args[c].op = "runningApplications"
    /\ ValidCall(c)
    /\ Finished(c)
    /\ ~Truthy(LastAnswer(c).err)
    /\ LastAnswer(c).result = Undefined

C16_EmptyBridgeResultFails ==
    \A c \in Calls :
        EmptyBridgeResult(c) =>
            IF HasCallback(c)
            THEN /\ cbLog[c] # <<>>
                 /\ \A i \in 1..Len(cbLog[c]) :
                        /\ Truthy(cbLog[c][i].err)
                        /\ cbLog[c][i].res = Undefined
            ELSE handle[c].state = "rejected"

(***************************************************************************)
(* C17: a valid runningApplications, isOpen, quit or focus call dispatches *)
(* exactly one script.  A valid minimize call dispatches one or two; the   *)
(* second one only after the bridge has answered the first, and only if    *)
(* that answer reported a failure.                                         *)
(***************************************************************************)
C17_DispatchesBoundedAndOrdered ==
    \A c \in Calls :
        ValidCall(c) =>
            IF args[c].op = "minimize"
            THEN /\ Len(scripts[c]) \in {1, 2}
                 /\ Len(scripts[c]) <= Len(answers[c]) + 1
                 /\ Len(scripts[c]) = 2 => Truthy(answers[c][1].err)
            ELSE Len(scripts[c]) = 1

(***************************************************************************)
(* C18: quit with a sequence of application names dispatches exactly one   *)
(* script, and that script lists every name of the sequence, quoted, in    *)
(* the given order; at no time has the call dispatched a second script.    *)
(***************************************************************************)
RECURSIVE NamesInOrder(_)
NamesInOrder(names) ==
    IF names = <<>> THEN ""
    ELSE IF Len(names) = 1 THEN "\"" \o names[1] \o "\""
    ELSE "\"" \o names[1] \o "\"," \o NamesInOrder(Tail(names))

QuitOfSequence(c) ==
    /\ args[c].op = "quit"
    /\ ValidCall(c)
    /\ args[c].application.tag = "array"

C18_QuitListIsOneScript ==
    \A c \in Calls :
        QuitOfSequence(c) =>
            scripts[c] =
                << "set applicationList to {"
                   \o NamesInOrder(args[c].application.items) \o "}\n"
                   \o "                  repeat with appl in applicationList\n"
                   \o "                    quit application appl\n"
                   \o "                  end repeat" >>

(* quit(['Spotify', 'Slack']) was answered by the bridge and has finished. *)
C18_Witness ==
    \E c \in Calls :
        /\ QuitOfSequence(c)
        /\ args[c].application.items = <<"Spotify", "Slack">>
        /\ Finished(c)
        /\ Len(answers[c]) = 1
        /\ Len(scripts[c]) = 1

(***************************************************************************)
(* What a bridge completion does to a call, by the operation that is       *)
(* waiting for it, and the records a call can be in after a sequence of    *)
(* bridge answers, over every choice of throwing callbacks.                *)
(***************************************************************************)
SettleBy(s, o, t1, t2) ==
    CASE s.pc = "awaitRunning" -> runningApplicationsSettle(s, o, t1, t2)
      [] s.pc = "awaitIsOpen" -> isOpenSettle(s, o, t1, t2)
      [] s.pc = "awaitQuitList" -> quitListSettle(s, o)
      [] s.pc = "awaitQuit" -> quitSettle(s, o, t1, t2)
      [] s.pc = "awaitMinimize" -> minimizeSettle(s, o, t1)
      [] s.pc = "awaitHide" -> hideSettle(s, o)
      [] s.pc = "awaitHideAsync" -> hideAsyncSettle(s, o)
      [] s.pc = "awaitFocus" -> focusSettle(s, o, t1, t2)
      [] OTHER -> s

RECURSIVE Replay(_, _)
Replay(records, outcomes) ==
    IF outcomes = <<>> THEN records
    ELSE Replay({ SettleBy(s, outcomes[1], t1, t2) :
                      s \in records, t1 \in BOOLEAN, t2 \in BOOLEAN },
                Tail(outcomes))

(***************************************************************************)
(* C19: runningApplications(f) and minimize(app, f) with a callable f and  *)
(* no further argument behave as runningApplications({}, f) and            *)
(* minimize(app, {}, f) under the same bridge answers: the same scripts    *)
(* are dispatched and f receives the same invocations.                     *)
(***************************************************************************)
ExplicitForm(c) ==
    IF args[c].op = "runningApplications"
    THEN { runningApplications(NoOptions, args[c].options, t) : t \in BOOLEAN }
    ELSE { minimize(args[c].application, NoOptions, args[c].options, t) :
               t \in BOOLEAN }

C19_OmittedOptionsAsExplicitDefaults ==
    \A c \in Calls :
        OptionsOmitted(c) /\ Called(c) =>
            \E s \in Replay(ExplicitForm(c), answers[c]) :
                /\ s.scripts = scripts[c]
                /\ s.cbLog = cbLog[c]
                /\ s.handle = handle[c]
                /\ s.thrown = thrown[c]

(* minimize('Finder', f) finished through the fallback and f was invoked.  *)
C19_Witness ==
    \E c \in Calls :
        /\ OptionsOmitted(c)
        /\ args[c].op = "minimize"
        /\ args[c].application = Str("Finder")
        /\ Finished(c)
        /\ Len(scripts[c]) = 2
        /\ cbLog[c] # <<>>

(***************************************************************************)
(* Two callers.  Both calls may be dispatched before either is answered,   *)
(* and the bridge answers them in any order.  The arguments are a smaller  *)
(* selection of the ones above: with and without callback, valid and       *)
(* invalid applications and options.                                       *)
(***************************************************************************)
PairOfCalls == {1, 2}

PairArgs ==
    { a \in [op : {"runningApplications", "isOpen", "quit", "minimize", "focus"},
             application : {Undefined, Str("Finder"),
                            Arr(<<"Spotify", "Slack">>)},
             options : {Undefined, Fn, Obj(Undefined, Bool(TRUE)),
                        Obj(Bool(FALSE), Undefined), Str("opts")},
             cb : {Undefined, Fn}] :
        /\ a.op = "runningApplications" => a.application = Undefined
        /\ a.op \in {"isOpen", "quit", "focus"} => a.options = Undefined }

InitPair ==
    /\ pc = [c \in PairOfCalls |-> Fresh.pc]
    /\ args = [c \in PairOfCalls |-> NoArgs]
    /\ thrown = [c \in PairOfCalls |-> Fresh.thrown]
    /\ handle = [c \in PairOfCalls |-> Fresh.handle]
    /\ cbLog = [c \in PairOfCalls |-> Fresh.cbLog]
    /\ scripts = [c \in PairOfCalls |-> Fresh.scripts]
    /\ answers = [c \in PairOfCalls |-> <<>>]
    /\ env = [c \in PairOfCalls |-> Fresh.env]

NextPair ==
    \E c \in PairOfCalls :
        \/ CallQuit(c) /\ args'[c] \in PairArgs
        \/ CallMinimize(c) /\ args'[c] \in PairArgs
        \/ CallRunningApplications(c) /\ args'[c] \in PairArgs
        \/ CallIsOpen(c) /\ args'[c] \in PairArgs
        \/ CallFocus(c) /\ args'[c] \in PairArgs
        \/ SettleRunningApplications(c)
        \/ SettleIsOpen(c)
        \/ SettleQuitList(c)
        \/ SettleQuit(c)
        \/ SettleMinimize(c)
        \/ SettleHide(c)
        \/ SettleHideAsync(c)
        \/ SettleFocus(c)

SpecPair == InitPair /\ [][NextPair]_vars

(***************************************************************************)
(* The records one call can be in when it runs alone: the operation's      *)
(* synchronous part applied to the call's own arguments, followed by the   *)
(* completion handlers applied to the call's own bridge answers.           *)
(***************************************************************************)
StartOf(a, t) ==
    CASE a.op = "runningApplications" -> runningApplications(a.options, a.cb, t)
      [] a.op = "isOpen" -> isOpen(a.application, a.cb, t)
      [] a.op = "quit" -> quit(a.application, a.cb, t)
      [] a.op = "minimize" -> minimize(a.application, a.options, a.cb, t)
      [] a.op = "focus" -> focus(a.application, a.cb, t)
      [] OTHER -> Fresh

Alone(c) == Replay({ StartOf(args[c], t) : t \in BOOLEAN }, answers[c])

InFlight(c) ==
    pc[c] \in {"awaitRunning", "awaitIsOpen", "awaitQuitList", "awaitQuit",
               "awaitMinimize", "awaitHide", "awaitHideAsync", "awaitFocus"}

====
